---- MODULE Spec2Model ----
(***************************************************************************)
(* Model of baud-gen.c: an ATtiny84 programmed as a dual-channel baud-rate *)
(* clock generator.  Two timers in CTC/toggle mode divide the oscillator;  *)
(* their compare registers are reloaded by a poll loop from a 6-bit        *)
(* selector read on port A.                                                *)
(***************************************************************************)
EXTENDS Integers, Sequences, FiniteSets, TLC

(***************************************************************************)
(* Program constants (baud-gen.c lines 70..104, README.md line 3).         *)
(***************************************************************************)
PA_DDR_INIT == 64
PA_PUP_INIT == 63
PA_INIT == 0
PB_DDR_INIT == 4
PB_PUP_INIT == 0
PB_INIT == 0

BAUD_SEL_MASK == 63
BAUD_SEL_4800 == 0
BAUD_SEL_9600 == 1
BAUD_SEL_19200 == 2
BAUD_SEL_38400 == 3
BAUD_SEL_57600 == 4
BAUD_SEL_115200 == 5

BAUD_DIV_4800 == 23
BAUD_DIV_9600 == 11
BAUD_DIV_19200 == 5
BAUD_DIV_38400 == 2
BAUD_DIV_57600 == 1
BAUD_DIV_115200 == 15
BAUD_DEFAULT == BAUD_DIV_9600

TCCR0A_INIT == 66
TCCR0B_INIT == 1
OCR0A_INIT == BAUD_DEFAULT
TIMSK0_INIT == 0

TCCR1A_INIT == 64
TCCR1B_INIT == 9
OCR1A_INIT == BAUD_DEFAULT
TIMSK1_INIT == 0

\* frequency of the TTL oscillator on CLKI, in Hz
F_CLKI == 3686400

(***************************************************************************)
(* Bounds of the model.                                                    *)
(***************************************************************************)
\* largest 3-bit selector code the pins take in the asynchronous-pin
\* specification (SpecAsync); Spec drives the whole port, 0..255
MaxGlitchCode == 1

\* largest 3-bit selector code the pins take in the specification with
\* fairness (SpecLive)
MaxLiveCode == 6

(***************************************************************************)
(* C bit operators on uint8_t values.                                      *)
(***************************************************************************)
RECURSIVE And(_, _)
\* x & y
And(x, y) ==
    IF x = 0 \/ y = 0 THEN 0
    ELSE (IF x % 2 = 1 /\ y % 2 = 1 THEN 1 ELSE 0) + 2 * And(x \div 2, y \div 2)

RECURSIVE Or(_, _)
\* x | y
Or(x, y) ==
    IF x = 0 THEN y
    ELSE IF y = 0 THEN x
    ELSE (IF x % 2 = 1 \/ y % 2 = 1 THEN 1 ELSE 0) + 2 * Or(x \div 2, y \div 2)

\* x >> n
Shr(x, n) == x \div (2 ^ n)

Byte == 0 .. 255

VARIABLES
    pc,                 \* position of the program
    SREG_I,             \* global interrupt enable flag
    MCUSR,              \* reset flags
    WDE,                \* watchdog enabled
    CLKPR,              \* clock prescale register
    TCCR0A, TCCR0B, OCR0A, TIMSK0,
    TCCR1A, TCCR1B, OCR1A, TIMSK1,
    DDRA, PORTA, DDRB, PORTB,
    PINA,               \* levels on the port A pins
    baud_select_bits,   \* main's local
    prev_selection,     \* main's local
    sampled,            \* history: PINA & BAUD_SEL_MASK as read by this iteration
    prev0,              \* history: prev_selection when this iteration sampled
    writes,             \* history: compare-register writes of this iteration
    applied             \* history: some change event has completed

timers == <<TCCR0A, TCCR0B, TIMSK0, TCCR1A, TCCR1B, TIMSK1>>
ports == <<DDRA, PORTA, DDRB, PORTB>>
mcu == <<SREG_I, MCUSR, WDE, CLKPR>>
hist == <<sampled, prev0, writes, applied>>
vars == <<pc, mcu, timers, ports, OCR0A, OCR1A, PINA, baud_select_bits,
          prev_selection, hist>>

(***************************************************************************)
(* baud_set(): baud rate bit code -> divisor (lines 197..227).             *)
(***************************************************************************)
baud_set_no5(baud) ==
    IF baud = BAUD_SEL_4800 THEN BAUD_DIV_4800
    ELSE IF baud = BAUD_SEL_9600 THEN BAUD_DIV_9600
    ELSE IF baud = BAUD_SEL_19200 THEN BAUD_DIV_19200
    ELSE IF baud = BAUD_SEL_38400 THEN BAUD_DIV_38400
    ELSE IF baud = BAUD_SEL_57600 THEN BAUD_DIV_57600
    ELSE BAUD_DEFAULT

baud_set_zeroDefault(baud) ==
    IF baud = BAUD_SEL_4800 THEN BAUD_DIV_4800
    ELSE IF baud = BAUD_SEL_9600 THEN BAUD_DIV_9600
    ELSE IF baud = BAUD_SEL_19200 THEN BAUD_DIV_19200
    ELSE IF baud = BAUD_SEL_38400 THEN BAUD_DIV_38400
    ELSE IF baud = BAUD_SEL_57600 THEN BAUD_DIV_57600
    ELSE IF baud = BAUD_SEL_115200 THEN BAUD_DIV_115200
    ELSE 0

baud_set_genDiv(baud) ==
    IF baud = BAUD_SEL_4800 THEN BAUD_DIV_4800 + 1
    ELSE IF baud = BAUD_SEL_9600 THEN BAUD_DIV_9600 + 1
    ELSE IF baud = BAUD_SEL_19200 THEN BAUD_DIV_19200 + 1
    ELSE IF baud = BAUD_SEL_38400 THEN BAUD_DIV_38400 + 1
    ELSE IF baud = BAUD_SEL_57600 THEN BAUD_DIV_57600 + 1
    ELSE IF baud = BAUD_SEL_115200 THEN BAUD_DIV_115200 + 1
    ELSE BAUD_DEFAULT + 1

baud_set(baud) ==
    IF baud = BAUD_SEL_4800 THEN BAUD_DIV_4800
    ELSE IF baud = BAUD_SEL_9600 THEN BAUD_DIV_9600
    ELSE IF baud = BAUD_SEL_19200 THEN BAUD_DIV_19200
    ELSE IF baud = BAUD_SEL_38400 THEN BAUD_DIV_38400
    ELSE IF baud = BAUD_SEL_57600 THEN BAUD_DIV_57600
    ELSE IF baud = BAUD_SEL_115200 THEN BAUD_DIV_115200
    ELSE BAUD_DEFAULT

(***************************************************************************)
(* Hardware reading of the registers ioinit() programs (ATtiny84 data      *)
(* sheet, the sections the source cites).                                  *)
(***************************************************************************)
\* a write of v to CLKPR: 0x80 sets CLKPCE alone; with CLKPCE set, a write
\* with bit 7 clear loads CLKPS3..0 and clears CLKPCE; anything else is ignored
ClkprWrite(old, v) ==
    IF v = 128 THEN 128 + (old % 16)
    ELSE IF old >= 128 /\ v < 128 THEN v % 16
    ELSE old

\* system clock division factor selected by CLKPS3..0
ClockDivision(clkpr) == 2 ^ (clkpr % 16)

\* timer clock division selected by CS02..0 / CS12..0 (0: timer stopped)
TimerPrescale(tccrb) ==
    CASE tccrb % 8 = 1 -> 1
      [] tccrb % 8 = 2 -> 8
      [] tccrb % 8 = 3 -> 64
      [] tccrb % 8 = 4 -> 256
      [] tccrb % 8 = 5 -> 1024
      [] OTHER -> 0

\* COM0A1:0 / COM1A1:0 = 01: toggle the OCnA pin on compare match
ToggleOnCompare(tccra) == (tccra \div 64) % 4 = 1

\* timer 0 clears on compare match (WGM01 of TCCR0A)
Ctc0 == (TCCR0A \div 2) % 2 = 1

\* timer 1 clears on compare match (WGM12 of TCCR1B)
Ctc1 == (TCCR1B \div 8) % 2 = 1

\* twice the number of oscillator periods in one output period, for
\* compare value ocr: the pin toggles every (ocr + 1) timer clocks
OscPerCycle(tccrb, ocr) ==
    ClockDivision(CLKPR) * TimerPrescale(tccrb) * 2 * (ocr + 1)

(***************************************************************************)
(* Power-up / hardware reset: I/O registers at their reset values, CLKPS   *)
(* per the CKDIV8 fuse, watchdog possibly still running, pins at any level.*)
(***************************************************************************)
ResetState ==
    /\ pc = "reset"
    /\ SREG_I = 0
    /\ MCUSR \in {1, 2, 4, 8}
    /\ WDE \in BOOLEAN
    /\ CLKPR \in {0, 3}
    /\ TCCR0A = 0 /\ TCCR0B = 0 /\ OCR0A = 0 /\ TIMSK0 = 0
    /\ TCCR1A = 0 /\ TCCR1B = 0 /\ OCR1A = 0 /\ TIMSK1 = 0
    /\ DDRA = 0 /\ PORTA = 0 /\ DDRB = 0 /\ PORTB = 0
    /\ baud_select_bits = 0
    /\ prev_selection = 0
    /\ sampled = 0 /\ prev0 = 0 /\ writes = <<>> /\ applied = FALSE

Init ==
    /\ ResetState
    /\ PINA \in Byte

(***************************************************************************)
(* reset(), section .init3 (lines 167..177).                               *)
(***************************************************************************)
Reset ==
    /\ pc = "reset"
    /\ SREG_I' = 0
    /\ MCUSR' = 0
    /\ WDE' = FALSE
    /\ pc' = "ioinit"
    /\ UNCHANGED <<CLKPR, timers, ports, OCR0A, OCR1A, PINA,
                   baud_select_bits, prev_selection, hist>>

(***************************************************************************)
(* ioinit() (lines 129..159), called at line 242.                          *)
(***************************************************************************)
Ioinit_keepClkpr ==
    /\ pc = "ioinit"
    /\ CLKPR' = ClkprWrite(CLKPR, 0)
    /\ TCCR0A' = TCCR0A_INIT
    /\ TCCR0B' = TCCR0B_INIT
    /\ OCR0A' = OCR0A_INIT
    /\ TIMSK0' = TIMSK0_INIT
    /\ TCCR1A' = TCCR1A_INIT
    /\ TCCR1B' = TCCR1B_INIT
    /\ OCR1A' = OCR1A_INIT
    /\ TIMSK1' = TIMSK1_INIT
    /\ DDRA' = PA_DDR_INIT
    /\ PORTA' = Or(PA_INIT, PA_PUP_INIT)
    /\ DDRB' = PB_DDR_INIT
    /\ PORTB' = Or(PB_INIT, PB_PUP_INIT)
    /\ pc' = "cli"
    /\ UNCHANGED <<SREG_I, MCUSR, WDE, PINA, baud_select_bits,
                   prev_selection, hist>>

Ioinit_noOcr1A ==
    /\ pc = "ioinit"
    /\ CLKPR' = ClkprWrite(ClkprWrite(CLKPR, 128), 0)
    /\ TCCR0A' = TCCR0A_INIT
    /\ TCCR0B' = TCCR0B_INIT
    /\ OCR0A' = OCR0A_INIT
    /\ TIMSK0' = TIMSK0_INIT
    /\ TCCR1A' = TCCR1A_INIT
    /\ TCCR1B' = TCCR1B_INIT
    /\ OCR1A' = OCR1A
    /\ TIMSK1' = TIMSK1_INIT
    /\ DDRA' = PA_DDR_INIT
    /\ PORTA' = Or(PA_INIT, PA_PUP_INIT)
    /\ DDRB' = PB_DDR_INIT
    /\ PORTB' = Or(PB_INIT, PB_PUP_INIT)
    /\ pc' = "cli"
    /\ UNCHANGED <<SREG_I, MCUSR, WDE, PINA, baud_select_bits,
                   prev_selection, hist>>

Ioinit ==
    /\ pc = "ioinit"
    /\ CLKPR' = ClkprWrite(ClkprWrite(CLKPR, 128), 0)
    /\ TCCR0A' = TCCR0A_INIT
    /\ TCCR0B' = TCCR0B_INIT
    /\ OCR0A' = OCR0A_INIT
    /\ TIMSK0' = TIMSK0_INIT
    /\ TCCR1A' = TCCR1A_INIT
    /\ TCCR1B' = TCCR1B_INIT
    /\ OCR1A' = OCR1A_INIT
    /\ TIMSK1' = TIMSK1_INIT
    /\ DDRA' = PA_DDR_INIT
    /\ PORTA' = Or(PA_INIT, PA_PUP_INIT)
    /\ DDRB' = PB_DDR_INIT
    /\ PORTB' = Or(PB_INIT, PB_PUP_INIT)
    /\ pc' = "cli"
    /\ UNCHANGED <<SREG_I, MCUSR, WDE, PINA, baud_select_bits,
                   prev_selection, hist>>

(***************************************************************************)
(* main(): cli() at line 250.                                              *)
(***************************************************************************)
Cli ==
    /\ pc = "cli"
    /\ SREG_I' = 0
    /\ pc' = "sample"
    /\ UNCHANGED <<MCUSR, WDE, CLKPR, timers, ports, OCR0A, OCR1A, PINA,
                   baud_select_bits, prev_selection, hist>>

(***************************************************************************)
(* main(): the poll loop, lines 253..265.                                  *)
(***************************************************************************)
\* line 257: baud_select_bits = PINA & BAUD_SEL_MASK
Sample_noMask ==
    /\ pc = "sample"
    /\ baud_select_bits' = PINA
    /\ sampled' = And(PINA, BAUD_SEL_MASK)
    /\ prev0' = prev_selection
    /\ writes' = <<>>
    /\ pc' = "compare"
    /\ UNCHANGED <<mcu, timers, ports, OCR0A, OCR1A, PINA, prev_selection,
                   applied>>

Sample ==
    /\ pc = "sample"
    /\ baud_select_bits' = And(PINA, BAUD_SEL_MASK)
    /\ sampled' = And(PINA, BAUD_SEL_MASK)
    /\ prev0' = prev_selection
    /\ writes' = <<>>
    /\ pc' = "compare"
    /\ UNCHANGED <<mcu, timers, ports, OCR0A, OCR1A, PINA, prev_selection,
                   applied>>

\* line 259: if ( baud_select_bits != prev_selection )
Compare_skipA ==
    /\ pc = "compare"
    /\ pc' = IF baud_select_bits # prev_selection THEN "writeB" ELSE "loop"
    /\ UNCHANGED <<mcu, timers, ports, OCR0A, OCR1A, PINA, baud_select_bits,
                   prev_selection, hist>>

Compare_always ==
    /\ pc = "compare"
    /\ pc' = "writeA"
    /\ UNCHANGED <<mcu, timers, ports, OCR0A, OCR1A, PINA, baud_select_bits,
                   prev_selection, hist>>

Compare ==
    /\ pc = "compare"
    /\ pc' = IF baud_select_bits # prev_selection THEN "writeA" ELSE "loop"
    /\ UNCHANGED <<mcu, timers, ports, OCR0A, OCR1A, PINA, baud_select_bits,
                   prev_selection, hist>>

\* the argument of baud_set at line 261
CodeA_wideMask(bits) == And(bits, 15)

CodeA(bits) == And(bits, 7)

\* the argument of baud_set at line 262
CodeB_noShift(bits) == And(bits, 7)

CodeB(bits) == And(Shr(bits, 3), 7)

\* line 261: OCR0A = baud_set((baud_select_bits & 0x07))
WriteA_resample ==
    /\ pc = "writeA"
    /\ baud_select_bits' = And(PINA, BAUD_SEL_MASK)
    /\ OCR0A' = baud_set(CodeA(baud_select_bits'))
    /\ writes' = Append(writes, [reg |-> "OCR0A", code |-> CodeA(baud_select_bits'),
                                 val |-> OCR0A', old |-> OCR0A, pins |-> PINA])
    /\ pc' = "writeB"
    /\ UNCHANGED <<mcu, timers, ports, OCR1A, PINA,
                   prev_selection, sampled, prev0, applied>>

\* the statement of line 261, wherever it runs
StoreA_clobberB ==
    /\ OCR0A' = baud_set(CodeA(baud_select_bits))
    /\ OCR1A' = OCR1A_INIT
    /\ writes' = Append(writes, [reg |-> "OCR0A", code |-> CodeA(baud_select_bits),
                                 val |-> OCR0A', old |-> OCR0A, pins |-> PINA])
    /\ UNCHANGED <<mcu, timers, ports, PINA, baud_select_bits,
                   prev_selection, sampled, prev0, applied>>

StoreA ==
    /\ OCR0A' = baud_set(CodeA(baud_select_bits))
    /\ writes' = Append(writes, [reg |-> "OCR0A", code |-> CodeA(baud_select_bits),
                                 val |-> OCR0A', old |-> OCR0A, pins |-> PINA])
    /\ UNCHANGED <<mcu, timers, ports, OCR1A, PINA, baud_select_bits,
                   prev_selection, sampled, prev0, applied>>

WriteA ==
    /\ pc = "writeA"
    /\ StoreA
    /\ pc' = "writeB"

\* the statement of line 262, wherever it runs
StoreB ==
    /\ OCR1A' = baud_set(CodeB(baud_select_bits))
    /\ writes' = Append(writes, [reg |-> "OCR1A", code |-> CodeB(baud_select_bits),
                                 val |-> OCR1A', old |-> OCR1A, pins |-> PINA])
    /\ UNCHANGED <<mcu, timers, ports, OCR0A, PINA, baud_select_bits,
                   prev_selection, sampled, prev0, applied>>

\* line 262: OCR1A = baud_set(((baud_select_bits >> 3) & 0x07))
WriteB ==
    /\ pc = "writeB"
    /\ StoreB
    /\ pc' = "update"

\* line 263: prev_selection = baud_select_bits
UpdatePrev_stale ==
    /\ pc = "update"
    /\ prev_selection' = prev_selection
    /\ applied' = TRUE
    /\ pc' = "loop"
    /\ UNCHANGED <<mcu, timers, ports, OCR0A, OCR1A, PINA, baud_select_bits,
                   sampled, prev0, writes>>

UpdatePrev ==
    /\ pc = "update"
    /\ prev_selection' = baud_select_bits
    /\ applied' = TRUE
    /\ pc' = "loop"
    /\ UNCHANGED <<mcu, timers, ports, OCR0A, OCR1A, PINA, baud_select_bits,
                   sampled, prev0, writes>>

\* line 253: while ( 1 ); the history of the finished iteration is dropped
Loop_exit ==
    /\ pc = "loop"
    /\ pc' = "return"
    /\ sampled' = 0 /\ prev0' = 0 /\ writes' = <<>>
    /\ UNCHANGED <<mcu, timers, ports, OCR0A, OCR1A, PINA, baud_select_bits,
                   prev_selection, applied>>

Loop ==
    /\ pc = "loop"
    /\ pc' = "sample"
    /\ sampled' = 0 /\ prev0' = 0 /\ writes' = <<>>
    /\ UNCHANGED <<mcu, timers, ports, OCR0A, OCR1A, PINA, baud_select_bits,
                   prev_selection, applied>>

ProgramStep ==
    \/ Reset
    \/ Ioinit
    \/ Cli
    \/ Sample
    \/ Compare
    \/ WriteA
    \/ WriteB
    \/ UpdatePrev
    \/ Loop

(***************************************************************************)
(* The selector pins (PA0..5), the OC1A pin (PA6) and the unused pin (PA7) *)
(* as the program reads them in PINA.                                      *)
(***************************************************************************)
\* the levels change while the program is between two reads of PINA
PinChange ==
    /\ pc = "sample"
    /\ \E p \in Byte : p # PINA /\ PINA' = p
    /\ UNCHANGED <<pc, mcu, timers, ports, OCR0A, OCR1A, baud_select_bits,
                   prev_selection, hist>>

\* port values with both selector codes in 0..MaxGlitchCode
GlitchPins ==
    {a + 8 * b + 64 * h : a \in 0 .. MaxGlitchCode, b \in 0 .. MaxGlitchCode,
                          h \in 0 .. 1}

\* the levels change at any point of the program
PinGlitch ==
    /\ \E p \in GlitchPins : p # PINA /\ PINA' = p
    /\ UNCHANGED <<pc, mcu, timers, ports, OCR0A, OCR1A, baud_select_bits,
                   prev_selection, hist>>

Next == ProgramStep \/ PinChange

Spec == Init /\ [][Next]_vars

InitAsync ==
    /\ ResetState
    /\ PINA \in GlitchPins

NextAsync == ProgramStep \/ PinGlitch

SpecAsync == InitAsync /\ [][NextAsync]_vars

\* the processor runs without sleeping (lines 245, 246 and 255 are
\* commented out) and with interrupts off: it always executes its next
\* instruction
\* port values with both selector codes in 0..MaxLiveCode, PA6 and PA7 low
LivePins == {a + 8 * b : a \in 0 .. MaxLiveCode, b \in 0 .. MaxLiveCode}

\* the levels change, within LivePins, between two reads of PINA
PinChangeLive ==
    /\ pc = "sample"
    /\ \E p \in LivePins : p # PINA /\ PINA' = p
    /\ UNCHANGED <<pc, mcu, timers, ports, OCR0A, OCR1A, baud_select_bits,
                   prev_selection, hist>>

InitLive ==
    /\ ResetState
    /\ PINA \in LivePins

NextLive == ProgramStep \/ PinChangeLive

SpecLive == InitLive /\ [][NextLive]_vars /\ WF_vars(ProgramStep)

(***************************************************************************)
(* The poll loop with the two writes of a change event in either order:    *)
(* line 262 may run before line 261, as when the two writes are given to   *)
(* two interleaved processes that PreviousSelection's update joins.        *)
(***************************************************************************)
\* line 262 run first
WriteBFirst ==
    /\ pc = "writeA"
    /\ StoreB
    /\ pc' = "writeA2"

\* line 261 run second
WriteASecond ==
    /\ pc = "writeA2"
    /\ StoreA
    /\ pc' = "update"

NextReorder == ProgramStep \/ PinChange \/ WriteBFirst \/ WriteASecond

SpecReorder == Init /\ [][NextReorder]_vars

(***************************************************************************)
(* Properties.                                                             *)
(***************************************************************************)
\* positions of the poll loop at which this iteration's sample is in hand
InIteration == pc \in {"compare", "writeA", "writeB", "update", "loop"}

\* the rate table of README.md lines 8..15, column gen-div-N, by code;
\* codes 6 and 7 are listed as 9600 baud
Tabulated == <<23, 11, 5, 2, 1, 15, 11, 11>>

\* C1: for every selector code c in 0..7 baud_set(c) is the tabulated
\* divisor (0->23, 1->11, 2->5, 3->2, 4->1, 5->15, 6 and 7 -> 11), and every
\* value the loop obtains from baud_set for a code is that code's divisor.
C1_DecoderTable ==
    /\ \A c \in 0 .. 7 : baud_set(c) = Tabulated[c + 1]
    /\ \A i \in 1 .. Len(writes) :
          /\ writes[i].code \in 0 .. 7
          /\ writes[i].val = Tabulated[writes[i].code + 1]

\* a change event that decoded code 5 for channel A and the undefined code
\* 7 for channel B
C1_Witness ==
    /\ pc = "loop"
    /\ Len(writes) = 2
    /\ writes[1].code = 5 /\ writes[1].val = 15
    /\ writes[2].code = 7 /\ writes[2].val = 11

\* C2: once the iteration that sampled s has completed, OCR0A equals
\* decode(s & 0x07) and OCR1A equals decode((s >> 3) & 0x07), for every
\* iteration from power-up onward, the first one included.
C2_RegistersFollowSample ==
    pc = "loop" =>
        /\ OCR0A = baud_set(sampled % 8)
        /\ OCR1A = baud_set((sampled \div 8) % 8)

\* C3: an iteration whose sample differs from PreviousSelection writes
\* channel A exactly once, with decode(x & 0x07), and channel B exactly
\* once, with decode((x >> 3) & 0x07); from selection 0 the input 0b001001
\* writes 11 to each channel.
C3_ChangeWritesOnce ==
    (pc = "loop" /\ sampled # prev0) =>
        /\ Len(writes) = 2
        /\ writes[1].reg = "OCR0A"
        /\ writes[1].val = baud_set(sampled % 8)
        /\ writes[2].reg = "OCR1A"
        /\ writes[2].val = baud_set((sampled \div 8) % 8)
        /\ OCR0A = writes[1].val
        /\ OCR1A = writes[2].val
        /\ (prev0 = 0 /\ sampled = 9) => (writes[1].val = 11 /\ writes[2].val = 11)

\* the change event of the example: selection 0b000000, input 0b001001
C3_Witness ==
    /\ pc = "loop"
    /\ prev0 = 0
    /\ sampled = 9
    /\ Len(writes) = 2
    /\ writes[1].val = 11
    /\ writes[2].val = 11

\* C4: an iteration whose sample equals PreviousSelection writes neither
\* compare register and leaves PreviousSelection unchanged, so the second
\* of two iterations fed the same input performs no write.
C4_NoWriteWhenUnchanged ==
    /\ []((pc = "loop" /\ sampled = prev0) =>
            (writes = <<>> /\ prev_selection = prev0))
    /\ [][(pc = "compare" /\ baud_select_bits = prev_selection) =>
            UNCHANGED <<OCR0A, OCR1A, prev_selection, writes>>]_vars

\* the iteration after the one that applied 0b101101, fed 0b101101 again
C4_Witness ==
    /\ pc = "loop"
    /\ applied
    /\ sampled = 45
    /\ prev0 = 45
    /\ writes = <<>>
    /\ OCR0A = 15
    /\ OCR1A = 15

\* the divisors of the rate table
Divisors == {1, 2, 5, 11, 15, 23}

\* C5: in every state after initialization, whatever the inputs were
\* (0b111111 included), each compare register holds one of the tabulated
\* divisors 1, 2, 5, 11, 15, 23 (so a value in 0..255), and the program is
\* at a position of the poll loop from which it can take a step.
C5_ValidDivisors ==
    pc \notin {"reset", "ioinit"} =>
        /\ OCR0A \in Divisors /\ OCR0A \in Byte
        /\ OCR1A \in Divisors /\ OCR1A \in Byte
        /\ pc \in {"cli", "sample", "compare", "writeA", "writeB", "update", "loop"}
        /\ ENABLED ProgramStep

\* all six selector pins read high: both channels at the default divisor
C5_Witness ==
    /\ pc = "loop"
    /\ sampled = 63
    /\ Len(writes) = 2
    /\ OCR0A = 11
    /\ OCR1A = 11

\* C6: two port values that agree on bits 0-2 derive the same channel A
\* divisor and two that agree on bits 3-5 derive the same channel B divisor:
\* the value a change event wrote to a channel is the value derived from
\* every port value agreeing with the sampled one on that channel's field,
\* whatever its other bits (the other field, PA6, PA7) are.
C6_ChannelIndependence ==
    pc = "loop" => \A i \in 1 .. Len(writes) : \A x \in Byte :
        /\ (writes[i].reg = "OCR0A" /\ x % 8 = writes[i].pins % 8) =>
              baud_set(CodeA(And(x, BAUD_SEL_MASK))) = writes[i].val
        /\ (writes[i].reg = "OCR1A"
              /\ (x \div 8) % 8 = (writes[i].pins \div 8) % 8) =>
              baud_set(CodeB(And(x, BAUD_SEL_MASK))) = writes[i].val

\* a change event sampled with PA7 high, field A = 5 and field B = 3
C6_Witness ==
    /\ pc = "loop"
    /\ Len(writes) = 2
    /\ PINA = 128 + 8 * 3 + 5
    /\ writes[1].pins = PINA
    /\ writes[1].val = 15
    /\ writes[2].val = 2

\* README.md lines 8..13: baud and UART-div by code 0..5
Baud == <<4800, 9600, 19200, 38400, 57600, 115200>>
UartDiv == <<16, 16, 16, 16, 16, 1>>
AttinyFrq == <<76800, 153600, 307200, 614400, 921600, 115200>>

\* the timer control register B of the channel a compare register belongs to
TccrbOf(reg) == IF reg = "OCR0A" THEN TCCR0B ELSE TCCR1B

\* C7: with f_out = f_input / (2 * (divisor + 1)) and f_input = 3,686,400
\* Hz, for every defined code c in 0..5 the frequency generated for
\* baud_set(c) is an exact integer and equals baud(c) * UART-div(c): 76800,
\* 153600, 307200, 614400, 921600 and 115200 Hz; the timers as programmed
\* generate that frequency for every divisor written for a defined code.
C7_ExactFrequencies ==
    /\ \A c \in 0 .. 5 :
          /\ F_CLKI % (2 * (baud_set(c) + 1)) = 0
          /\ F_CLKI \div (2 * (baud_set(c) + 1)) = Baud[c + 1] * UartDiv[c + 1]
          /\ Baud[c + 1] * UartDiv[c + 1] = AttinyFrq[c + 1]
    /\ \A i \in 1 .. Len(writes) :
          writes[i].code \in 0 .. 5 =>
              /\ F_CLKI % OscPerCycle(TccrbOf(writes[i].reg), writes[i].val) = 0
              /\ F_CLKI \div OscPerCycle(TccrbOf(writes[i].reg), writes[i].val)
                    = AttinyFrq[writes[i].code + 1]

\* channel A set for 115200 baud (x1), channel B for 4800 baud (x16)
C7_Witness ==
    /\ pc = "loop"
    /\ Len(writes) = 2
    /\ writes[1].code = 5
    /\ F_CLKI \div OscPerCycle(TCCR0B, OCR0A) = 115200
    /\ writes[2].code = 0
    /\ F_CLKI \div OscPerCycle(TCCR1B, OCR1A) = 76800

\* both channels toggle their pin on compare match and clear the counter
ChannelsConfigured ==
    /\ ToggleOnCompare(TCCR0A) /\ Ctc0
    /\ ToggleOnCompare(TCCR1A) /\ Ctc1

\* C8 as stated: after ioinit the reference clock reaches both timers
\* through a global divide-by-8 prescale and each timer counts it undivided,
\* so the output frequency for divisor d is (3,686,400 / 8) / (2 * (d + 1)).
C8_PrescaleBy8 ==
    pc \notin {"reset", "ioinit"} =>
        /\ ClockDivision(CLKPR) = 8
        /\ TimerPrescale(TCCR0B) = 1
        /\ TimerPrescale(TCCR1B) = 1
        /\ ChannelsConfigured
        /\ F_CLKI \div OscPerCycle(TCCR0B, OCR0A)
              = (F_CLKI \div 8) \div (2 * (OCR0A + 1))
        /\ F_CLKI \div OscPerCycle(TCCR1B, OCR1A)
              = (F_CLKI \div 8) \div (2 * (OCR1A + 1))

\* C8 as amended: after ioinit the system clock prescaler is set to
\* divide-by-1 (the divide-by-8 a programmed CKDIV8 fuse selects at reset is
\* removed) and each timer counts that clock undivided, so the output
\* frequency for divisor d is 3,686,400 / (2 * (d + 1)).
C8_PrescaleBy1 ==
    pc \notin {"reset", "ioinit"} =>
        /\ CLKPR = 0
        /\ ClockDivision(CLKPR) = 1
        /\ TimerPrescale(TCCR0B) = 1
        /\ TimerPrescale(TCCR1B) = 1
        /\ ChannelsConfigured
        /\ F_CLKI \div OscPerCycle(TCCR0B, OCR0A) = F_CLKI \div (2 * (OCR0A + 1))
        /\ F_CLKI \div OscPerCycle(TCCR1B, OCR1A) = F_CLKI \div (2 * (OCR1A + 1))

\* initialization done and channel A reloaded for 4800 baud: 76800 Hz
C8_Witness ==
    /\ pc = "loop"
    /\ Len(writes) = 2
    /\ OCR0A = 23
    /\ ClockDivision(CLKPR) = 1
    /\ F_CLKI \div OscPerCycle(TCCR0B, OCR0A) = 76800

\* C9: within every change event the write to OCR0A comes strictly before
\* the write to OCR1A, and PreviousSelection is updated only after both.
C9_AThenBThenPrev ==
    /\ [](/\ Len(writes) <= 2
          /\ Len(writes) >= 1 => writes[1].reg = "OCR0A"
          /\ Len(writes) = 2 => writes[2].reg = "OCR1A"
          /\ Len(writes) = 1 => pc = "writeB"
          /\ (InIteration /\ prev_selection # prev0) => Len(writes) = 2)
    /\ [][prev_selection' # prev_selection =>
            /\ Len(writes) = 2
            /\ writes[1].reg = "OCR0A"
            /\ writes[2].reg = "OCR1A"
            /\ writes' = writes]_vars

\* a finished change event: A written, then B, then PreviousSelection
C9_Witness ==
    /\ pc = "loop"
    /\ Len(writes) = 2
    /\ writes[1].reg = "OCR0A"
    /\ writes[2].reg = "OCR1A"
    /\ prev_selection = sampled
    /\ prev_selection # prev0

\* C10: the input is sampled once per iteration: while the pins change
\* between the steps, the comparison, both writes and the update of
\* PreviousSelection use the value sampled at the start of the iteration.
C10_OneSamplePerIteration ==
    /\ InIteration => baud_select_bits = sampled
    /\ pc \in {"writeA", "writeB", "update"} => sampled # prev0
    /\ pc = "loop" => (writes # <<>>) = (sampled # prev0)
    /\ Len(writes) >= 1 => writes[1].val = baud_set(sampled % 8)
    /\ Len(writes) = 2 => writes[2].val = baud_set((sampled \div 8) % 8)
    /\ pc = "loop" => prev_selection = sampled

\* a finished change event during which the selector pins changed after
\* the sample and again between the two writes
C10_Witness ==
    /\ pc = "loop"
    /\ Len(writes) = 2
    /\ And(writes[1].pins, BAUD_SEL_MASK) # sampled
    /\ And(writes[2].pins, BAUD_SEL_MASK) # And(writes[1].pins, BAUD_SEL_MASK)
    /\ And(writes[2].pins, BAUD_SEL_MASK) # sampled
    /\ And(PINA, BAUD_SEL_MASK) # sampled
    /\ prev_selection = sampled

\* C11: a poll loop that writes channel B before channel A, or performs
\* the two writes as two interleaved processes, ends every change event
\* with the channel A register, the channel B register and
\* PreviousSelection the original order produces, and each channel receives
\* the one value the original order writes to it.
C11_ReorderEquivalent ==
    (pc \in {"update", "loop"} /\ writes # <<>>) =>
        /\ Len(writes) = 2
        /\ {writes[1].reg, writes[2].reg} = {"OCR0A", "OCR1A"}
        /\ \A i \in 1 .. 2 :
              writes[i].val = IF writes[i].reg = "OCR0A"
                              THEN baud_set(CodeA(sampled))
                              ELSE baud_set(CodeB(sampled))
        /\ OCR0A = baud_set(CodeA(sampled))
        /\ OCR1A = baud_set(CodeB(sampled))
        /\ prev_selection = IF pc = "loop" THEN sampled ELSE prev0

\* a finished change event that wrote channel B (code 0) before channel A
\* (code 5)
C11_Witness ==
    /\ pc = "loop"
    /\ Len(writes) = 2
    /\ writes[1].reg = "OCR1A"
    /\ writes[2].reg = "OCR0A"
    /\ sampled = 5
    /\ OCR0A = 15
    /\ OCR1A = 23
    /\ prev_selection = 5

\* the divisors are being pushed: lines 261..263
Applying == pc \in {"writeA", "writeB", "update"}

\* C12: the poll loop has no terminal and no deadlocked state, and with the
\* processor always executing its next step every iteration that detects a
\* change (Applying) returns to Idle with both writes done and
\* PreviousSelection equal to the sampled input, after which the input is
\* sampled again, whatever the sequence of inputs.
C12_AppliesAndResamples ==
    /\ [](pc \in {"reset", "ioinit", "cli", "sample", "compare", "writeA",
                  "writeB", "update", "loop"} /\ ENABLED ProgramStep)
    /\ [][(Applying /\ pc' # "sample") => sampled' = sampled]_vars
    /\ Applying ~> (pc = "loop" /\ Len(writes) = 2 /\ prev_selection = sampled)
    /\ (pc = "loop") ~> (pc = "compare")
    /\ []<>(pc = "compare")

\* a change event for input 0b001001 back in Idle, about to sample again
C12_Witness ==
    /\ pc = "loop"
    /\ Len(writes) = 2
    /\ sampled = 9
    /\ prev_selection = 9
    /\ ENABLED Loop

\* C13: when the poll loop takes its first sample, initialization has
\* set both compare registers to the default divisor 11 and
\* PreviousSelection is 0: so it is in the state main enters the loop with,
\* and in every state from which, or right after which, a sample is taken
\* with no change event yet applied.
C13_StateAtFirstSample ==
    (pc = "cli" \/ (pc \in {"sample", "compare"} /\ ~applied)) =>
        /\ OCR0A = 11
        /\ OCR1A = 11
        /\ prev_selection = 0

\* the first sample (0b100101) just taken, nothing applied yet
C13_Witness ==
    /\ pc = "compare"
    /\ ~applied
    /\ sampled = 37
    /\ OCR0A = 11
    /\ OCR1A = 11
    /\ prev_selection = 0

\* C14: PreviousSelection is always in 0..63, changes only in an iteration
\* whose sample differs from it (and then to that sample), and at the end of
\* every iteration equals the input sampled in it, bits 6 and 7 of the port
\* masked off.
C14_PreviousSelection ==
    /\ [](/\ prev_selection \in 0 .. 63
          /\ pc = "loop" => (prev_selection = sampled
                             /\ prev_selection = PINA % 64))
    /\ [][prev_selection' # prev_selection =>
            /\ pc = "update"
            /\ prev_selection = prev0
            /\ sampled # prev_selection
            /\ prev_selection' = sampled]_vars

\* an iteration that sampled 0b101101 with PA6 and PA7 high
C14_Witness ==
    /\ pc = "loop"
    /\ PINA = 192 + 45
    /\ prev0 # 45
    /\ prev_selection = 45

\* waiting, selection unchanged: the positions outside lines 261..263
Idle == pc \in {"sample", "compare", "loop"}

\* C15: in every Idle state after a change event has been applied, OCR0A =
\* decode(PreviousSelection & 0x07) and OCR1A = decode((PreviousSelection
\* >> 3) & 0x07); before the first change event the state is
\* PreviousSelection = 0 with both registers equal to 11.
C15_RegistersMatchSelection ==
    /\ (Idle /\ applied) =>
          /\ OCR0A = baud_set(prev_selection % 8)
          /\ OCR1A = baud_set((prev_selection \div 8) % 8)
    /\ (~applied /\ pc \in {"cli", "sample", "compare", "loop", "writeA"}) =>
          /\ prev_selection = 0
          /\ OCR0A = 11
          /\ OCR1A = 11

\* Idle with selection 0b000000 applied after another one: both channels
\* at code 0's divisor, the next sample (0b111111) in hand
C15_Witness ==
    /\ pc = "compare"
    /\ applied
    /\ prev_selection = 0
    /\ OCR0A = 23
    /\ OCR1A = 23
    /\ sampled = 63

\* C16: a change event whose sample differs from PreviousSelection only in
\* bits 3-5 leaves OCR0A with the value it had before the event, and one
\* whose sample differs only in bits 0-2 leaves OCR1A with the value it had
\* before, from every reachable state, the initial one included.
C16_OtherChannelKept ==
    (pc = "loop" /\ Len(writes) = 2) =>
        /\ sampled % 8 = prev0 % 8 => OCR0A = writes[1].old
        /\ (sampled \div 8) % 8 = (prev0 \div 8) % 8 => OCR1A = writes[2].old

====
